---- MODULE Spec2Model ----
(***************************************************************************)
(* A state-machine model of src/plugins/xbl/src/xbl_manager.cpp:           *)
(* XBLManager (sign-in, connection status, achievement cache, registry of  *)
(* save containers) and XBLSaveData (container handle, isSaving flag and   *)
(* the background storage tasks).                                          *)
(*                                                                         *)
(* Threads.  The API of both classes is called from the game's threads;    *)
(* SDK continuations (.then), the sign-out handler and the tasks given to  *)
(* Concurrent::execute run on other threads, and nothing in the file       *)
(* synchronises them.  Every thread's position is a variable and one       *)
(* action is one step of one thread, so the actions interleave as the      *)
(* threads do.  The sign-out handler, onLoggedIn, the task of              *)
(* recreateCloudSaveContainer and getConnectedStorage take one step for    *)
(* each statement that writes the shared state.  So do the calls of the    *)
(* API (signIn, deInit, getPlayerName, getSaveContainer, getAuthToken,     *)
(* setAchievementProgress, isAchievementUnlocked, XBLSaveData) and the     *)
(* storage tasks: one step for each statement that reads or writes what    *)
(* another thread writes (status, the user, the context, the provider,     *)
(* the achievement status and cache, the container handle, isSaving, the   *)
(* registry); `threads` holds the calls that are inside their function.    *)
(*                                                                         *)
(* Undefined behaviour (operator-> on an empty Maybe or a null             *)
(* shared_ptr, a call through a dangling reference) is a choice between    *)
(* the process crashing, after which nothing runs, and the access going     *)
(* through.                                                                *)
(*                                                                         *)
(* Specifications.  Spec is the whole system.  The registry and storage    *)
(* API, the achievement API and the token API share only the session       *)
(* (status, user, context, provider), which none of them writes, so a      *)
(* property of one API and the session is checked under the specification  *)
(* of the session's actions and that API's: SpecStorage, SpecRegistry,     *)
(* SpecAchievements, SpecToken.  The session is every signIn() call with   *)
(* its protocol, and the sign-out.  recreateCloudSaveContainer writes      *)
(* status and the provider, which the storage, registry and token API      *)
(* read: it is part of their specifications.  The achievement API reads    *)
(* the user and the context only, and getConnectedStorage() writes         *)
(* neither (it writes status and the provider): SpecAchievements has the   *)
(* session's steps up to getConnectedStorage().                            *)
(***************************************************************************)
EXTENDS Bags, Integers, FiniteSets, Sequences, TLC

\* ---- bounds of the model ------------------------------------------------
\* calls of signIn() (init() calls it once; a later call signs in again)
MaxSignIns == 2
\* calls of recreateCloudSaveContainer() that find status == Connected
MaxRecreates == 1
\* background storage tasks (Concurrent::execute) alive at the same time
MaxTasks == 2
\* save containers that have tasks alive at the same time
MaxBusyContainers == 1
\* pages one achievement fetch may return
MaxPages == 2
\* get_token_and_signature requests in flight at the same time
MaxTokenRequests == 1
\* update_achievement requests in flight at the same time
MaxUpdates == 1
\* calls of the API (of XBLManager and of XBLSaveData) the game makes, a call of
\* signIn() counted twice: it starts a protocol of its own, whose steps interleave
\* with every other call
MaxCalls == 5
\* calls of getSaveContainer, of XBLSaveData and of getAuthToken that are inside
\* their function at the same time, each on a thread of its own
MaxThreads == 2

\* registry keys the game asks for; "" is the name the constructor replaces
Keys == {"", "save"}
\* std::map<String, ...> iterates in key order: "" < "save"
KeyOrder == <<"", "save">>
\* achievement identifiers the service knows
AchIds == {"a1"}
\* the currentProgress and maximumValue the game passes to setAchievementProgress:
\* a part of the maximum, and the maximum itself
CurrentProgresses == {53, 100}
MaximumValues == {100}

\* a handle CreateContainer returned through an empty Maybe (garbage)
BadHandle == -1
\* an empty Maybe<GameSaveContainer> / Maybe<GameSaveProvider>
NoHandle == 0

VARIABLES
    status,              \* XBLStatus
    xboxUser,            \* std::shared_ptr<xbox_live_user>: TRUE when non-null
    xboxLiveContext,     \* std::shared_ptr<xbox_live_context>: TRUE when non-null
    gameSaveProvider,    \* Maybe<GameSaveProvider>: NoHandle, or k for the k-th provider obtained
    achievementsStatus,  \* XBLAchievementsStatus
    achievementStatus,   \* std::map<string_t, bool>: id -> "absent" | "locked" | "unlocked"
    saveStorage,         \* std::map<String, shared_ptr<ISaveData>>: key -> the objects stored
                         \* under the key, in the order of their line 65; the map holds the
                         \* last one, the callers that were returned them hold the others
    signPc,              \* position of the sign-in protocol of each signIn() call
    outPc,               \* position of the sign-out-completed handler: statements done
    recPc,               \* position of the task of recreateCloudSaveContainer
    recCursor,           \* its iterator over saveStorage: index into KeyOrder, the
                         \* object it points to, and the handle line 520 has made
    fetch,               \* the achievement fetch each signIn() started
    updates,             \* update_achievement calls in flight: [id, progress]
    progressCall,        \* the setAchievementProgress call between lines 182 and 186
    tokenRequests,       \* get_token_and_signature calls in flight
    unlockCall,          \* the isAchievementUnlocked call that is inside the function
    tasks,               \* the background storage tasks alive (a bag)
    threads,             \* the calls of the game's threads that are inside their function (a bag)
    sdk,                 \* the environment: the platform's signed-in user and handlers,
                         \* and the counters of the game's calls
    crashed,             \* the process died of an invalid access
    lastCall             \* the last API call that returned, and what it returned

vars == <<status, xboxUser, xboxLiveContext, gameSaveProvider, achievementsStatus,
          achievementStatus, saveStorage, signPc, outPc, recPc, recCursor, fetch, updates,
          progressCall, tokenRequests, unlockCall, tasks, threads, sdk, crashed, lastCall>>

sessionVars == <<status, xboxUser, xboxLiveContext, gameSaveProvider>>
achVars == <<achievementsStatus, achievementStatus>>
procVars == <<signPc, outPc, recPc, recCursor>>
\* what the achievement and token API keep
achApiVars == <<fetch, updates, progressCall, unlockCall>>
\* what the storage API keeps, and the calls under way
storageVars == <<saveStorage, tasks, threads>>

\* the iterator of the recreate task before begin()
NoCursor == [at |-> 0, obj |-> 0, handle |-> NoHandle]
NoFetch == [pc |-> "idle", pages |-> 0, seen |-> {}]
NoUnlock == [pc |-> "idle", id |-> "", defaultValue |-> FALSE]
NoProgress == [active |-> FALSE, id |-> "", currentProgress |-> 0, maximumValue |-> 0,
               progress |-> 0]
NoCall == [op |-> "none", arg |-> "", ret |-> "none", obj |-> 0, line |-> 0]

EmptyCache == [a \in AchIds |-> "absent"]

\* XBLManager::XBLManager(): nothing is signed in, connected, fetched or registered
Init ==
    /\ status = "Disconnected"
    /\ xboxUser = FALSE
    /\ xboxLiveContext = FALSE
    /\ gameSaveProvider = NoHandle
    /\ achievementsStatus = "Uninitialized"
    /\ achievementStatus = EmptyCache
    /\ saveStorage = [k \in Keys |-> <<>>]
    /\ signPc = [n \in 1..MaxSignIns |-> "idle"]
    /\ outPc = 0
    /\ recPc = "idle"
    /\ recCursor = NoCursor
    /\ fetch = [n \in 1..MaxSignIns |-> NoFetch]
    /\ updates = {}
    /\ progressCall = NoProgress
    /\ tokenRequests = 0
    /\ unlockCall = NoUnlock
    /\ tasks = EmptyBag
    /\ threads = EmptyBag
    /\ sdk = [signedIn |-> FALSE, handlers |-> 0, pending |-> 0, calls |-> 0, signIns |-> 0,
              recreates |-> 0, providers |-> 0]
    /\ crashed = FALSE
    /\ lastCall = NoCall

\* lines 62-63: saveStorage.find(name) finds an entry
Present(name) == Len(saveStorage[name]) > 0

\* the object the map holds under the name
Registered(name) == saveStorage[name][Len(saveStorage[name])]

\* the game makes one more call of the API
Called == sdk.calls < MaxCalls /\ sdk' = [sdk EXCEPT !.calls = @ + 1]

\* ---- XBLManager::signIn ---------------------------------------------------
\* Every call of signIn() starts a sign-in protocol of its own: the continuation of
\* its signin_silently, the interactive sign-in, onLoggedIn and getConnectedStorage.
\* signPc[n] is the position of the protocol of the n-th call; the protocols of
\* two calls run side by side.

\* lines 239-240, on the caller's thread: status = Connecting; the code has no
\* test, a call is accepted in every state (the two guards are the bounds
\* MaxSignIns and MaxCalls)
SignInCall ==
    /\ ~crashed
    /\ sdk.signIns < MaxSignIns
    /\ sdk.calls + 2 <= MaxCalls
    /\ status' = "Connecting"
    /\ signPc' = [signPc EXCEPT ![sdk.signIns + 1] = "user"]
    /\ sdk' = [sdk EXCEPT !.signIns = @ + 1, !.calls = @ + 2]
    /\ UNCHANGED <<xboxUser, xboxLiveContext, gameSaveProvider, achVars, storageVars, outPc,
                   recPc, recCursor, achApiVars, tokenRequests, crashed>>
    /\ lastCall' = NoCall

\* line 243 of the n-th call: xboxUser = std::make_shared<xbox_live_user>(nullptr)
SignInUser(n) ==
    /\ ~crashed
    /\ signPc[n] = "user"
    /\ xboxUser' = TRUE
    /\ signPc' = [signPc EXCEPT ![n] = "call"]
    /\ UNCHANGED <<status, xboxLiveContext, gameSaveProvider, achVars, storageVars, outPc,
                   recPc, recCursor, achApiVars, tokenRequests, sdk, crashed>>
    /\ lastCall' = NoCall

\* line 265 of the n-th call: xboxUser->signin_silently(dispatcher), an invalid
\* access when the sign-out handler has reset the user since line 243
SignInSilently(n) ==
    /\ ~crashed
    /\ signPc[n] = "call"
    /\ \/ /\ signPc' = [signPc EXCEPT ![n] = "silent"]
          /\ UNCHANGED crashed
       \/ /\ ~xboxUser
          /\ crashed' = TRUE
          /\ UNCHANGED signPc
    /\ UNCHANGED <<sessionVars, achVars, storageVars, outPc, recPc, recCursor, achApiVars,
                   tokenRequests, sdk>>
    /\ lastCall' = NoCall

\* lines 49-52: init() signs in
SignIn == sdk.signIns = 0 /\ SignInCall

\* signIn() (or init()) called again, whatever the protocol of the call before is
\* doing
SignInAgain == sdk.signIns > 0 /\ SignInCall

\* lines 246-248: onLoggedIn is called by protocol n and creates the context.
\* `dangling` says that the call goes through a reference to a closure that is gone.
OnLoggedIn(n, dangling) ==
    /\ \/ /\ xboxLiveContext' = TRUE
          /\ signPc' = [signPc EXCEPT ![n] = "register"]
          /\ UNCHANGED crashed
       \/ /\ dangling
          /\ crashed' = TRUE
          /\ UNCHANGED <<xboxLiveContext, signPc>>
    /\ UNCHANGED <<xboxUser, gameSaveProvider, achVars, storageVars, outPc, recPc, recCursor,
                   achApiVars, tokenRequests, sdk>>
    /\ lastCall' = NoCall

\* line 250 of protocol n: xbox_live_user::add_sign_out_completed_handler registers
\* one more sign-out handler; from here on the sign-out of the platform's user is
\* told to the handlers.  onLoggedIn goes on to retrieveUserAchievementsState().
AddSignOutCompletedHandler(n) ==
    /\ ~crashed
    /\ signPc[n] = "register"
    /\ sdk' = [sdk EXCEPT !.signedIn = TRUE, !.handlers = @ + 1]
    /\ signPc' = [signPc EXCEPT ![n] = "retrieve"]
    /\ UNCHANGED <<sessionVars, achVars, storageVars, outPc, recPc, recCursor, achApiVars,
                   tokenRequests, crashed>>
    /\ lastCall' = NoCall

\* lines 260 and 319-321: retrieveUserAchievementsState() called by onLoggedIn of
\* protocol n sets Retrieving
RetrieveUserAchievementsState(n) ==
    /\ ~crashed
    /\ signPc[n] = "retrieve"
    /\ achievementsStatus' = "Retrieving"
    /\ signPc' = [signPc EXCEPT ![n] = "clear"]
    /\ UNCHANGED <<sessionVars, achievementStatus, storageVars, outPc, recPc, recCursor,
                   achApiVars, tokenRequests, sdk, crashed>>
    /\ lastCall' = NoCall

\* line 322: achievementStatus.clear()
RetrieveUserAchievementsClear(n) ==
    /\ ~crashed
    /\ signPc[n] = "clear"
    /\ achievementStatus' = EmptyCache
    /\ signPc' = [signPc EXCEPT ![n] = "request"]
    /\ UNCHANGED <<sessionVars, achievementsStatus, storageVars, outPc, recPc, recCursor,
                   achApiVars, tokenRequests, sdk, crashed>>
    /\ lastCall' = NoCall

\* lines 324-331: the first page is requested through xboxLiveContext-> and
\* xboxUser->, an invalid access when the sign-out handler has reset one of them
\* since line 248; then getConnectedStorage() starts (line 262)
RetrieveUserAchievementsRequest(n) ==
    /\ ~crashed
    /\ signPc[n] = "request"
    /\ \/ /\ fetch' = [fetch EXCEPT ![n] = [pc |-> "wait", pages |-> 0, seen |-> {}]]
          /\ signPc' = [signPc EXCEPT ![n] = "storage"]
          /\ UNCHANGED crashed
       \/ /\ ~xboxUser \/ ~xboxLiveContext
          /\ crashed' = TRUE
          /\ UNCHANGED <<fetch, signPc>>
    /\ UNCHANGED <<sessionVars, achVars, storageVars, outPc, recPc, recCursor, updates,
                   progressCall, unlockCall, tokenRequests, sdk>>
    /\ lastCall' = NoCall

\* the results a sign-in call of the SDK can deliver
SignInResults == {"err", "success", "user_interaction_required", "user_cancel"}

\* lines 265-299: the continuation of the signin_silently of protocol n
SilentSignInDone(n, result) ==
    /\ ~crashed
    /\ signPc[n] = "silent"
    /\ CASE result = "success" ->
              /\ OnLoggedIn(n, FALSE)
              /\ UNCHANGED status
         [] result = "user_interaction_required" ->
              \* line 278: xboxUser->signin(dispatcher)
              /\ \/ signPc' = [signPc EXCEPT ![n] = "loud"] /\ UNCHANGED crashed
                 \/ ~xboxUser /\ crashed' = TRUE /\ UNCHANGED signPc
              /\ UNCHANGED <<sessionVars, achVars, storageVars, outPc, recPc, recCursor,
                             achApiVars, tokenRequests, sdk>>
              /\ lastCall' = NoCall
         [] OTHER ->
              \* lines 267-269 and 296-297
              /\ status' = "Disconnected"
              /\ signPc' = [signPc EXCEPT ![n] = "idle"]
              /\ UNCHANGED <<xboxUser, xboxLiveContext, gameSaveProvider, achVars,
                             storageVars, outPc, recPc, recCursor, achApiVars, tokenRequests,
                             sdk, crashed>>
              /\ lastCall' = NoCall

\* lines 278-293: the continuation of the interactive sign-in of protocol n.  An
\* error is only logged (line 281); a status other than success sets Disconnected
\* (line 289).  The lambda captures by reference ([&], line 278) and runs after the
\* enclosing continuation has returned, so line 286 calls onLoggedIn through a
\* dangling reference.
LoudSignInDone(n, result) ==
    /\ ~crashed
    /\ signPc[n] = "loud"
    /\ CASE result = "success" ->
              /\ OnLoggedIn(n, TRUE)
              /\ UNCHANGED status
         [] result = "err" ->
              /\ signPc' = [signPc EXCEPT ![n] = "idle"]
              /\ UNCHANGED <<sessionVars, achVars, storageVars, outPc, recPc, recCursor,
                             achApiVars, tokenRequests, sdk, crashed>>
              /\ lastCall' = NoCall
         [] OTHER ->
              /\ status' = "Disconnected"
              /\ signPc' = [signPc EXCEPT ![n] = "idle"]
              /\ UNCHANGED <<xboxUser, xboxLiveContext, gameSaveProvider, achVars,
                             storageVars, outPc, recPc, recCursor, achApiVars, tokenRequests,
                             sdk, crashed>>
              /\ lastCall' = NoCall

\* lines 250-258: the sign-out-completed handler, one statement a step, on the
\* SDK's thread.  Every onLoggedIn registers a handler and none is ever removed,
\* so the sign-out of a signed-in user runs the handler once for each
\* registration, one run after the other: sdk.pending counts the runs the event
\* has still to start.
SignOutHandler ==
    /\ ~crashed
    /\ \/ outPc = 0 /\ sdk.pending > 0
       \/ outPc = 0 /\ sdk.pending = 0 /\ sdk.signedIn /\ sdk.handlers > 0
       \/ outPc > 0
    /\ outPc' = IF outPc = 5 THEN 0 ELSE outPc + 1
    /\ sdk' = IF outPc # 0 THEN sdk
              ELSE IF sdk.pending > 0 THEN [sdk EXCEPT !.pending = @ - 1]
              ELSE [sdk EXCEPT !.signedIn = FALSE, !.pending = sdk.handlers - 1]
    /\ xboxUser' = IF outPc = 0 THEN FALSE ELSE xboxUser                          \* 252
    /\ xboxLiveContext' = IF outPc = 1 THEN FALSE ELSE xboxLiveContext            \* 253
    /\ gameSaveProvider' = IF outPc = 2 THEN NoHandle ELSE gameSaveProvider       \* 254
    /\ status' = IF outPc = 3 THEN "Disconnected" ELSE status                     \* 255
    /\ achievementsStatus' = IF outPc = 4 THEN "Uninitialized" ELSE achievementsStatus  \* 256
    /\ achievementStatus' = IF outPc = 5 THEN EmptyCache ELSE achievementStatus   \* 257
    /\ UNCHANGED <<storageVars, signPc, recPc, recCursor, achApiVars, tokenRequests, crashed>>
    /\ lastCall' = NoCall

\* ---- XBLManager::getConnectedStorage --------------------------------------
\* The coroutine is run by every sign-in protocol (line 262) and by the task of
\* recreateCloudSaveContainer (line 80); `pc` is the position of the one running it.

\* lines 307-309: FindAllAsync completed; GetForUserAsync is given
\* xboxLiveContext->application_config()->scid()
StorageRequest(pc) ==
    /\ ~crashed
    /\ pc = "storage"
    /\ crashed' \in (IF xboxLiveContext THEN {FALSE} ELSE {FALSE, TRUE})
    /\ UNCHANGED <<sessionVars, achVars, storageVars, outPc, achApiVars, tokenRequests, sdk>>
    /\ lastCall' = NoCall

\* lines 311-312 and 314-316: the result of GetForUserAsync.  Ok stores the new
\* provider; anything else sets Disconnected.
StorageResult(pc, ok) ==
    /\ ~crashed
    /\ pc = "provider"
    /\ IF ok
       THEN /\ gameSaveProvider' = sdk.providers + 1
            /\ sdk' = [sdk EXCEPT !.providers = @ + 1]
            /\ UNCHANGED status
       ELSE /\ status' = "Disconnected"
            /\ UNCHANGED <<gameSaveProvider, sdk>>
    /\ UNCHANGED <<xboxUser, xboxLiveContext, achVars, storageVars, outPc, achApiVars,
                   tokenRequests, crashed>>
    /\ lastCall' = NoCall

\* line 313
StorageConnected(pc) ==
    /\ ~crashed
    /\ pc = "connect"
    /\ status' = "Connected"
    /\ UNCHANGED <<xboxUser, xboxLiveContext, gameSaveProvider, achVars, storageVars, outPc,
                   achApiVars, tokenRequests, sdk, crashed>>
    /\ lastCall' = NoCall

\* line 262: co_await getConnectedStorage() of sign-in protocol n
SignInStorageRequest(n) ==
    /\ StorageRequest(signPc[n])
    /\ signPc' = [signPc EXCEPT ![n] = IF crashed' THEN @ ELSE "provider"]
    /\ UNCHANGED <<recPc, recCursor>>

SignInStorageResult(n, ok) ==
    /\ StorageResult(signPc[n], ok)
    /\ signPc' = [signPc EXCEPT ![n] = IF ok THEN "connect" ELSE "idle"]
    /\ UNCHANGED <<recPc, recCursor>>

SignInStorageConnected(n) ==
    /\ StorageConnected(signPc[n])
    /\ signPc' = [signPc EXCEPT ![n] = "idle"]
    /\ UNCHANGED <<recPc, recCursor>>

\* ---- XBLManager::recreateCloudSaveContainer -------------------------------

\* lines 72-76 and 87-88, on the caller's thread: the task is scheduled only when
\* status == Connected; the caller then waits for it (.get())
RecreateCloudSaveContainer ==
    /\ ~crashed
    /\ recPc = "idle"
    /\ sdk.recreates < MaxRecreates
    /\ sdk.calls < MaxCalls
    /\ IF status = "Connected"
       THEN /\ recPc' = "reset"
            /\ sdk' = [sdk EXCEPT !.recreates = @ + 1, !.calls = @ + 1]
            /\ lastCall' = [op |-> "recreateCloudSaveContainer", arg |-> "",
                            ret |-> "scheduled", obj |-> 0, line |-> 76]
       ELSE /\ lastCall' = [op |-> "recreateCloudSaveContainer", arg |-> "",
                            ret |-> "skipped", obj |-> 0, line |-> 89]
            /\ sdk' = [sdk EXCEPT !.calls = @ + 1]
            /\ UNCHANGED recPc
    /\ UNCHANGED <<sessionVars, achVars, storageVars, signPc, outPc, recCursor, achApiVars,
                   tokenRequests, crashed>>

\* line 78
RecreateDropProvider ==
    /\ ~crashed
    /\ recPc = "reset"
    /\ gameSaveProvider' = NoHandle
    /\ recPc' = "disc"
    /\ UNCHANGED <<status, xboxUser, xboxLiveContext, achVars, storageVars, signPc, outPc,
                   recCursor, achApiVars, tokenRequests, sdk, crashed>>
    /\ lastCall' = NoCall

\* line 79
RecreateDisconnect ==
    /\ ~crashed
    /\ recPc = "disc"
    /\ status' = "Disconnected"
    /\ recPc' = "storage"
    /\ UNCHANGED <<xboxUser, xboxLiveContext, gameSaveProvider, achVars, storageVars, signPc,
                   outPc, recCursor, achApiVars, tokenRequests, sdk, crashed>>
    /\ lastCall' = NoCall

\* line 80: getConnectedStorage().get()
RecreateStorageRequest ==
    /\ StorageRequest(recPc)
    /\ recPc' = IF crashed' THEN recPc ELSE "provider"
    /\ UNCHANGED <<signPc, recCursor>>

RecreateStorageResult(ok) ==
    /\ StorageResult(recPc, ok)
    /\ recPc' = IF ok THEN "connect" ELSE "loop"
    /\ UNCHANGED <<signPc, recCursor>>

RecreateStorageConnected ==
    /\ StorageConnected(recPc)
    /\ recPc' = "loop"
    /\ UNCHANGED <<signPc, recCursor>>

\* the entries of saveStorage the iterator has still to visit, as indexes of KeyOrder
EntriesAfter(i) == {j \in (i + 1)..Len(KeyOrder) : Present(KeyOrder[j])}

MinOf(S) == CHOOSE x \in S : \A y \in S : x <= y

\* lines 82-85: the loop moves to the next entry and reads the object the map holds
\* under it (iter->second), on which recreate() is called; past the last entry the
\* task ends
RecreateNext ==
    /\ ~crashed
    /\ recPc = "loop"
    /\ IF EntriesAfter(recCursor.at) = {}
       THEN /\ recPc' = "idle"
            /\ recCursor' = NoCursor
       ELSE LET j == MinOf(EntriesAfter(recCursor.at))
                n == Len(saveStorage[KeyOrder[j]])
            IN  /\ recCursor' = [at |-> j, obj |-> n, handle |-> NoHandle]
                /\ recPc' = "drop"
    /\ UNCHANGED <<sessionVars, achVars, storageVars, signPc, outPc, achApiVars,
                   tokenRequests, sdk, crashed>>
    /\ lastCall' = NoCall

\* line 519 (XBLSaveData::recreate): gameSaveContainer.reset() of the object the
\* iterator read, whatever the map holds under the name by now
RecreateReset ==
    /\ ~crashed
    /\ recPc = "drop"
    /\ saveStorage' =
           [saveStorage EXCEPT ![KeyOrder[recCursor.at]][recCursor.obj].gameSaveContainer =
                                   NoHandle]
    /\ recPc' = "create"
    /\ UNCHANGED <<sessionVars, achVars, tasks, threads, signPc, outPc, recCursor, achApiVars,
                   tokenRequests, sdk, crashed>>
    /\ lastCall' = NoCall

\* What manager.getProvider()->CreateContainer(containerName) returns: a handle of the
\* provider the manager holds, garbage when the Maybe is empty
CreateContainer == IF gameSaveProvider = NoHandle THEN BadHandle ELSE gameSaveProvider

\* line 520 (XBLSaveData::recreate), the right-hand side: the handle is made from
\* whatever getProvider() returns, whether or not the re-acquisition succeeded
RecreateCreate ==
    /\ ~crashed
    /\ recPc = "create"
    /\ \/ /\ recCursor' = [recCursor EXCEPT !.handle = CreateContainer]
          /\ recPc' = "assign"
          /\ UNCHANGED crashed
       \/ /\ gameSaveProvider = NoHandle
          /\ crashed' = TRUE
          /\ UNCHANGED <<recCursor, recPc>>
    /\ UNCHANGED <<sessionVars, achVars, storageVars, signPc, outPc, achApiVars,
                   tokenRequests, sdk>>
    /\ lastCall' = NoCall

\* line 520, the assignment: gameSaveContainer = the handle made
RecreateAssign ==
    /\ ~crashed
    /\ recPc = "assign"
    /\ saveStorage' =
           [saveStorage EXCEPT ![KeyOrder[recCursor.at]][recCursor.obj].gameSaveContainer =
                                   recCursor.handle]
    /\ recCursor' = [recCursor EXCEPT !.handle = NoHandle]
    /\ recPc' = "loop"
    /\ UNCHANGED <<sessionVars, achVars, tasks, threads, signPc, outPc, achApiVars,
                   tokenRequests, sdk, crashed>>
    /\ lastCall' = NoCall

\* ---- the calls of the game's threads ---------------------------------------------
\* A call of deInit, of getPlayerName, of getSaveContainer, of the XBLSaveData API
\* or of getAuthToken reads and writes the shared state at several statements,
\* with no lock: `threads` holds the calls that are inside their function, each at
\* its position, and one action is one statement of one call.  Of a call the
\* record also keeps what the properties are stated with: `connected`, whether its
\* test of the status found Connected, and `alone`, whether no other call of
\* getSaveContainer with the same name has been inside the function with it.

\* a call that has just entered: of `op`, on the object `obj` stored under `key`
NewThread(op, key, obj, pc) ==
    [op |-> op, key |-> key, obj |-> obj, pc |-> pc, handle |-> NoHandle,
     connected |-> FALSE, alone |-> TRUE]

\* `threads` without the call t: the call has returned
Returned(t) == threads (-) SetToBag({t})

\* `threads` with the call t at the position of `next`
Moved(t, next) == Returned(t) (+) SetToBag({next})

\* `threads` with one more call
Entered(t) == threads (+) SetToBag({t})

\* `tasks` without the task: the task has returned
Without(task) == tasks (-) SetToBag({task})

\* `tasks` with one more task
Scheduled(task) == tasks (+) SetToBag({task})

\* `tasks` with the task at the position of `next`
Advanced(task, next) == Without(task) (+) SetToBag({next})

\* ---- XBLSaveData::updateContainer ------------------------------------------------
\* updateContainer() is run by the constructor (line 386), on the object being
\* built, which the call holds until line 65 stores it, and by isReady() (line
\* 391), on an object of the registry.

\* gameSaveContainer of the object the call t works on; the object the constructor
\* builds is the call's own
Container(t) ==
    IF t.op = "getSaveContainer"
    THEN (IF t.pc = "assign" THEN NoHandle ELSE t.handle)
    ELSE saveStorage[t.key][t.obj].gameSaveContainer

\* the call t assigns h to gameSaveContainer of its object and is at `pc`
AssignContainer(t, h, pc) ==
    IF t.op = "getSaveContainer"
    THEN /\ threads' = Moved(t, [t EXCEPT !.handle = h, !.pc = pc])
         /\ UNCHANGED saveStorage
    ELSE /\ saveStorage' = [saveStorage EXCEPT
                               ![t.key][t.obj].gameSaveContainer = h]
         /\ threads' = Moved(t, [t EXCEPT !.handle = NoHandle, !.pc = pc])

\* line 525: manager.getStatus() == XBLStatus::Connected, as the call finds it
StatusRead == [pc |-> IF status = "Connected" THEN "handle" ELSE "reset",
               connected |-> status = "Connected"]

\* line 525 in the constructor: the test of the status
UpdateContainerStatus(t) ==
    /\ ~crashed
    /\ t.pc = "status"
    /\ threads' = Moved(t, [t EXCEPT !.pc = StatusRead.pc,
                                     !.connected = StatusRead.connected])
    /\ UNCHANGED <<sessionVars, achVars, saveStorage, tasks, procVars, achApiVars,
                   tokenRequests, sdk, crashed>>
    /\ lastCall' = NoCall

\* line 526: the test of the handle
UpdateContainerTest(t) ==
    /\ ~crashed
    /\ t.pc = "handle"
    /\ threads' = Moved(t, [t EXCEPT !.pc = IF Container(t) = NoHandle THEN "create"
                                                                    ELSE "done"])
    /\ UNCHANGED <<sessionVars, achVars, saveStorage, tasks, procVars, achApiVars,
                   tokenRequests, sdk, crashed>>
    /\ lastCall' = NoCall

\* line 527, the right-hand side: manager.getProvider()->CreateContainer(
\* containerName), an invalid access when the provider is empty; the call holds
\* the handle made
UpdateContainerCreate(t) ==
    /\ ~crashed
    /\ t.pc = "create"
    /\ \/ /\ threads' = Moved(t, [t EXCEPT !.handle = CreateContainer, !.pc = "assign"])
          /\ UNCHANGED crashed
       \/ /\ gameSaveProvider = NoHandle
          /\ crashed' = TRUE
          /\ UNCHANGED threads
    /\ UNCHANGED <<sessionVars, achVars, saveStorage, tasks, procVars, achApiVars,
                   tokenRequests, sdk>>
    /\ lastCall' = NoCall

\* line 527, the assignment: gameSaveContainer = the handle made
UpdateContainerAssign(t) ==
    /\ ~crashed
    /\ t.pc = "assign"
    /\ AssignContainer(t, t.handle, "done")
    /\ UNCHANGED <<sessionVars, achVars, tasks, procVars, achApiVars, tokenRequests, sdk,
                   crashed>>
    /\ lastCall' = NoCall

\* line 530: gameSaveContainer.reset()
UpdateContainerReset(t) ==
    /\ ~crashed
    /\ t.pc = "reset"
    /\ AssignContainer(t, NoHandle, "done")
    /\ UNCHANGED <<sessionVars, achVars, tasks, procVars, achApiVars, tokenRequests, sdk,
                   crashed>>
    /\ lastCall' = NoCall

\* ---- XBLManager::getSaveContainer ------------------------------------------------

\* lines 381-385: the object the constructor builds around the handle
\* updateContainer() left
NewSaveData(name, handle) ==
    [containerName |-> IF name = "" THEN "save" ELSE name,
     gameSaveContainer |-> handle, isSaving |-> FALSE]

\* the calls of getSaveContainer(name) that are inside the function
Builders(name) == {t \in BagToSet(threads) : t.op = "getSaveContainer" /\ t.key = name}

\* the call t once another call of getSaveContainer(name) is inside with it
Joined(t, name) == IF t \in Builders(name) THEN [t EXCEPT !.alone = FALSE] ELSE t

\* `threads` with one more call of getSaveContainer(name), which the calls of the
\* same name that are inside are no longer alone with
EnteredBuilder(name) ==
    LET joined == {Joined(t, name) : t \in BagToSet(threads)}
        before == [j \in joined |->
                      BagCardinality([t \in {u \in BagToSet(threads) : Joined(u, name) = j}
                                         |-> threads[t]])]
    IN  before (+) SetToBag({[NewThread("getSaveContainer", name, 0, "status")
                                 EXCEPT !.alone = Builders(name) = {}]})

\* getSaveContainer() without the lookup of lines 62-63: every call builds an object
GetSaveContainerAlwaysNew(name) ==
    /\ ~crashed
    /\ BagCardinality(threads) < MaxThreads
    /\ threads' = EnteredBuilder(name)
    /\ lastCall' = NoCall
    /\ sdk.calls < MaxCalls
    /\ sdk' = [sdk EXCEPT !.calls = @ + 1]
    /\ UNCHANGED <<sessionVars, achVars, saveStorage, tasks, procVars, achApiVars,
                   tokenRequests, crashed>>

\* lines 62-63 and 68: the lookup; an entry found is returned, and without one the
\* call goes on to build an object (line 64)
GetSaveContainer(name) ==
    /\ ~crashed
    /\ IF Present(name)
       THEN /\ lastCall' = [op |-> "getSaveContainer", arg |-> name, ret |-> "found",
                            obj |-> Len(saveStorage[name]), line |-> 68]
            /\ UNCHANGED threads
       ELSE /\ BagCardinality(threads) < MaxThreads
            /\ threads' = EnteredBuilder(name)
            /\ lastCall' = NoCall
    /\ Called
    /\ UNCHANGED <<sessionVars, achVars, saveStorage, tasks, procVars, achApiVars,
                   tokenRequests, crashed>>

\* lines 65-66: saveStorage[name] = save replaces whatever entry the name has by
\* now, and the call returns its object
GetSaveContainerStore(t) ==
    /\ ~crashed
    /\ t.op = "getSaveContainer"
    /\ t.pc = "done"
    /\ saveStorage' = [saveStorage EXCEPT ![t.key] =
                          Append(@, NewSaveData(t.key, t.handle))]
    /\ lastCall' = [op |-> "getSaveContainer", arg |-> t.key, ret |-> "created",
                    obj |-> Len(saveStorage[t.key]) + 1, line |-> 66]
    /\ threads' = Returned(t)
    /\ UNCHANGED <<sessionVars, achVars, tasks, procVars, achApiVars, tokenRequests, sdk,
                   crashed>>

\* ---- XBLSaveData::isReady ----------------------------------------------------------

BoolStr(b) == IF b THEN "true" ELSE "false"

\* isReady() called by the game on an object getSaveContainer has returned: line
\* 391 enters updateContainer(), whose line 525 tests the status
IsReady(key, obj) ==
    /\ ~crashed
    /\ obj <= Len(saveStorage[key])
    /\ BagCardinality(threads) < MaxThreads
    /\ threads' = Entered([NewThread("isReady", key, obj, StatusRead.pc)
                                      EXCEPT !.connected = StatusRead.connected])
    /\ lastCall' = NoCall
    /\ Called
    /\ UNCHANGED <<sessionVars, achVars, saveStorage, tasks, procVars, achApiVars,
                   tokenRequests, crashed>>

\* line 392: return gameSaveContainer.is_initialized()
IsReadyReturn(t) ==
    /\ ~crashed
    /\ t.op = "isReady"
    /\ t.pc = "done"
    /\ lastCall' = [op |-> "isReady", arg |-> t.key,
                    ret |-> BoolStr(Container(t) # NoHandle),
                    obj |-> t.obj, line |-> 392]
    /\ threads' = Returned(t)
    /\ UNCHANGED <<sessionVars, achVars, saveStorage, tasks, procVars, achApiVars,
                   tokenRequests, sdk, crashed>>

\* ---- XBLSaveData::getData, enumerate, setData, removeData ---------------------------

\* the task Concurrent::execute is given by `op`: lines 401, 448, 472, 497
NewTask(op, key, obj) ==
    [op |-> op, key |-> key, obj |-> obj, pc |-> IF op = "getData" THEN "start" ELSE "ready"]

StorageOps == {"getData", "enumerate", "setData", "removeData"}

\* the calls of the storage operations that have not decided between the exception
\* and the task
StorageThreads == {t \in BagToSet(threads) : t.op \in StorageOps}

\* the containers that have a task alive or a storage call under way
BusyContainers == {t.key : t \in BagToSet(tasks)} \cup {t.key : t \in StorageThreads}

\* getData (line 397), enumerate (444), setData (467) and removeData (493) enter
\* isReady(), whose updateContainer() tests the status (line 525)
StorageCall(op, key, obj) ==
    /\ ~crashed
    /\ obj <= Len(saveStorage[key])
    /\ BagCardinality(threads) < MaxThreads
    /\ BagCardinality(tasks) + BagCardinality([t \in StorageThreads |-> threads[t]]) < MaxTasks
    /\ Cardinality(BusyContainers \cup {key}) <= MaxBusyContainers
    /\ threads' = Entered([NewThread(op, key, obj, StatusRead.pc)
                                      EXCEPT !.connected = StatusRead.connected])
    /\ lastCall' = NoCall
    /\ Called
    /\ UNCHANGED <<sessionVars, achVars, saveStorage, tasks, procVars, achApiVars,
                   tokenRequests, crashed>>

\* lines 392 and 397-401 (444-448, 467-469, 493-497): is_initialized() decides
\* between the exception and the task; setData goes on to raise isSaving.  `tasks`
\* holds the tasks that are alive.
StorageCallReady(t) ==
    /\ ~crashed
    /\ t.op \in StorageOps
    /\ t.pc = "done"
    /\ IF Container(t) = NoHandle
       THEN /\ lastCall' = [op |-> t.op, arg |-> t.key, ret |-> "threw",
                            obj |-> t.obj, line |-> 398]
            /\ threads' = Returned(t)
            /\ UNCHANGED tasks
       ELSE IF t.op = "setData"
       THEN /\ threads' = Moved(t, [t EXCEPT !.pc = "saving"])
            /\ lastCall' = NoCall
            /\ UNCHANGED tasks
       ELSE /\ tasks' = Scheduled(NewTask(t.op, t.key, t.obj))
            /\ lastCall' = [op |-> t.op, arg |-> t.key,
                            ret |-> "scheduled", obj |-> t.obj, line |-> 401]
            /\ threads' = Returned(t)
    /\ UNCHANGED <<sessionVars, achVars, saveStorage, procVars, achApiVars, tokenRequests,
                   sdk, crashed>>

\* lines 471-472: setData raises isSaving and schedules its task
SetDataSaving(t) ==
    /\ ~crashed
    /\ t.op = "setData"
    /\ t.pc = "saving"
    /\ saveStorage' = [saveStorage EXCEPT ![t.key][t.obj].isSaving = TRUE]
    /\ tasks' = Scheduled(NewTask("setData", t.key, t.obj))
    /\ lastCall' = [op |-> "setData", arg |-> t.key, ret |-> "scheduled",
                    obj |-> t.obj, line |-> 472]
    /\ threads' = Returned(t)
    /\ UNCHANGED <<sessionVars, achVars, procVars, achApiVars, tokenRequests, sdk, crashed>>

\* ---- the background storage tasks ---------------------------------------------

\* the object the task works on
TaskObject(task) == saveStorage[task.key][task.obj]

\* lines 419, 452, 481, 504: the task issues its request through gameSaveContainer->,
\* an invalid access when the handle is empty.  `then` is the task list after the
\* request.
Issue(task, then) ==
    \/ /\ tasks' = then
       /\ UNCHANGED crashed
    \/ /\ TaskObject(task).gameSaveContainer = NoHandle
       /\ crashed' = TRUE
       /\ UNCHANGED tasks

\* line 403 of the getData task: it reads isSaving; false, it goes on to GetAsync;
\* true, it spins at line 406
GetDataCheck(task) ==
    /\ ~crashed
    /\ task.op = "getData"
    /\ task.pc = "start"
    /\ tasks' = Advanced(task, [task EXCEPT !.pc = IF TaskObject(task).isSaving THEN "spin"
                                                                             ELSE "issue"])
    /\ UNCHANGED <<sessionVars, achVars, saveStorage, threads, procVars, achApiVars,
                   tokenRequests, sdk, crashed>>
    /\ lastCall' = NoCall

\* line 406: the spinning task reads isSaving as false
GetDataSpin(task) ==
    /\ ~crashed
    /\ task.op = "getData"
    /\ task.pc = "spin"
    /\ ~TaskObject(task).isSaving
    /\ tasks' = Advanced(task, [task EXCEPT !.pc = "issue"])
    /\ UNCHANGED <<sessionVars, achVars, saveStorage, threads, procVars, achApiVars,
                   tokenRequests, sdk, crashed>>
    /\ lastCall' = NoCall

\* lines 406-412: GetTickCount64() reaches the deadline of 3000 ms while the task
\* spins; it logs the warning if isSaving is still true and goes on either way
GetDataDeadline(task) ==
    /\ ~crashed
    /\ task.op = "getData"
    /\ task.pc = "spin"
    /\ TaskObject(task).isSaving
    /\ tasks' = Advanced(task, [task EXCEPT !.pc = "expired"])
    /\ UNCHANGED <<sessionVars, achVars, saveStorage, threads, procVars, achApiVars,
                   tokenRequests, sdk, crashed>>
    /\ lastCall' = NoCall

\* line 419: the task issues GetAsync, whose result it returns
GetAsync(task) ==
    /\ ~crashed
    /\ task.op = "getData"
    /\ task.pc \in {"issue", "expired"}
    /\ Issue(task, Without(task))
    /\ UNCHANGED <<sessionVars, achVars, saveStorage, threads, procVars, achApiVars,
                   tokenRequests, sdk>>
    /\ lastCall' = NoCall

\* lines 448-462 and 497-509: the tasks of enumerate and removeData issue their
\* request and return
PlainTask(task) ==
    /\ ~crashed
    /\ task.op \in {"enumerate", "removeData"}
    /\ Issue(task, Without(task))
    /\ UNCHANGED <<sessionVars, achVars, saveStorage, threads, procVars, achApiVars,
                   tokenRequests, sdk>>
    /\ lastCall' = NoCall

\* lines 474-481: the setData task issues SubmitUpdatesAsync
SetDataSubmit(task) ==
    /\ ~crashed
    /\ task.op = "setData"
    /\ task.pc = "ready"
    /\ Issue(task, Advanced(task, [task EXCEPT !.pc = "inflight"]))
    /\ UNCHANGED <<sessionVars, achVars, saveStorage, threads, procVars, achApiVars,
                   tokenRequests, sdk>>
    /\ lastCall' = NoCall

\* lines 481-487: SubmitUpdatesAsync completes, Ok or not, and the task lowers
\* isSaving
SetDataDone(task, ok) ==
    /\ ~crashed
    /\ task.op = "setData"
    /\ task.pc = "inflight"
    /\ tasks' = Without(task)
    /\ saveStorage' = [saveStorage EXCEPT ![task.key][task.obj].isSaving = FALSE]
    /\ UNCHANGED <<sessionVars, achVars, threads, procVars, achApiVars, tokenRequests, sdk,
                   crashed>>
    /\ lastCall' = NoCall

\* ---- the achievement cache -----------------------------------------------------

\* XBLManager::deInit, line 56: achievementsStatus = Uninitialized
DeInit ==
    /\ ~crashed
    /\ BagCardinality(threads) < MaxThreads
    /\ achievementsStatus' = "Uninitialized"
    /\ threads' = Entered(NewThread("deInit", "", 0, "clear"))
    /\ lastCall' = NoCall
    /\ Called
    /\ UNCHANGED <<sessionVars, achievementStatus, saveStorage, tasks, procVars, achApiVars,
                   tokenRequests, crashed>>

\* XBLManager::deInit, lines 57-58: achievementStatus.clear(), and the call returns
DeInitClear(t) ==
    /\ ~crashed
    /\ t.op = "deInit"
    /\ t.pc = "clear"
    /\ achievementStatus' = EmptyCache
    /\ threads' = Returned(t)
    /\ lastCall' = [op |-> "deInit", arg |-> "", ret |-> "void", obj |-> 0, line |-> 58]
    /\ UNCHANGED <<sessionVars, achievementsStatus, saveStorage, tasks, procVars, achApiVars,
                   tokenRequests, sdk, crashed>>

\* ---- XBLManager::getPlayerName ----------------------------------------------------

\* lines 228-230 and 234: the test of xboxUser; without a user the call returns ""
GetPlayerName ==
    /\ ~crashed
    /\ IF xboxUser
       THEN /\ BagCardinality(threads) < MaxThreads
            /\ threads' = Entered(NewThread("getPlayerName", "", 0, "gamertag"))
            /\ lastCall' = NoCall
       ELSE /\ lastCall' = [op |-> "getPlayerName", arg |-> "", ret |-> "", obj |-> 0,
                            line |-> 234]
            /\ UNCHANGED threads
    /\ Called
    /\ UNCHANGED <<sessionVars, achVars, saveStorage, tasks, procVars, achApiVars,
                   tokenRequests, crashed>>

\* line 232: xboxUser->gamertag(), an invalid access when the sign-out handler has
\* reset the user since the test of line 230
GetPlayerNameReturn(t) ==
    /\ ~crashed
    /\ t.op = "getPlayerName"
    /\ t.pc = "gamertag"
    /\ \/ /\ threads' = Returned(t)
          /\ lastCall' = [op |-> "getPlayerName", arg |-> "", ret |-> "gamertag", obj |-> 0,
                          line |-> 232]
          /\ UNCHANGED crashed
       \/ /\ ~xboxUser
          /\ crashed' = TRUE
          /\ UNCHANGED threads
          /\ lastCall' = NoCall
    /\ UNCHANGED <<sessionVars, achVars, saveStorage, tasks, procVars, achApiVars,
                   tokenRequests, sdk>>


\* the items a page can hold: achievement id -> achieved
PageItems == UNION {[S -> BOOLEAN] : S \in SUBSET AchIds}

\* lines 347-354: the cache with the items of a page merged
MergePage(cache, items) ==
    [a \in AchIds |-> IF a \in DOMAIN items
                      THEN (IF items[a] THEN "unlocked" ELSE "locked")
                      ELSE cache[a]]

\* lines 332-360: a page of fetch n arrives without error; its items are merged
\* and, when it has a next page, get_next(32).get() is called
FetchPage(n, items, hasNext) ==
    /\ ~crashed
    /\ fetch[n].pc = "wait"
    /\ hasNext => fetch[n].pages + 1 < MaxPages
    /\ achievementStatus' = MergePage(achievementStatus, items)
    /\ fetch' = [fetch EXCEPT ![n] = [pc |-> IF hasNext THEN "wait" ELSE "last",
                                      pages |-> IF hasNext THEN @.pages + 1 ELSE 0,
                                      seen |-> @.seen \cup DOMAIN items]]
    /\ UNCHANGED <<sessionVars, achievementsStatus, storageVars, procVars, updates,
                   progressCall, unlockCall, tokenRequests, sdk, crashed>>
    /\ lastCall' = NoCall

\* lines 361-364: the page had no next page
FetchReady(n) ==
    /\ ~crashed
    /\ fetch[n].pc = "last"
    /\ achievementsStatus' = "Ready"
    /\ fetch' = [fetch EXCEPT ![n] = NoFetch]
    /\ UNCHANGED <<sessionVars, achievementStatus, storageVars, procVars, updates,
                   progressCall, unlockCall, tokenRequests, sdk, crashed>>
    /\ lastCall' = NoCall

\* lines 340-342 (a page arrives with an error) and 368-370 (get_next throws).  The
\* error branch logs first, reading xboxUser->gamertag(), an invalid access when
\* the sign-out handler has reset the user; the catch writes the status first.
FetchFailed(n, thrown) ==
    /\ ~crashed
    /\ fetch[n].pc = "wait"
    /\ thrown => fetch[n].pages > 0
    /\ IF thrown
       THEN /\ achievementsStatus' = "Uninitialized"
            /\ fetch' = [fetch EXCEPT ![n] = [NoFetch EXCEPT !.pc = "caught"]]
            /\ UNCHANGED crashed
       ELSE \/ /\ fetch' = [fetch EXCEPT ![n] = [NoFetch EXCEPT !.pc = "error"]]
               /\ UNCHANGED <<achievementsStatus, crashed>>
            \/ /\ ~xboxUser
               /\ crashed' = TRUE
               /\ UNCHANGED <<achievementsStatus, fetch>>
    /\ UNCHANGED <<sessionVars, achievementStatus, storageVars, procVars, updates,
                   progressCall, unlockCall, tokenRequests, sdk>>
    /\ lastCall' = NoCall

\* line 343, after the log of the error branch: the status is Uninitialized and the
\* fetch ends
FetchError(n) ==
    /\ ~crashed
    /\ fetch[n].pc = "error"
    /\ achievementsStatus' = "Uninitialized"
    /\ fetch' = [fetch EXCEPT ![n] = NoFetch]
    /\ UNCHANGED <<sessionVars, achievementStatus, storageVars, procVars, updates,
                   progressCall, unlockCall, tokenRequests, sdk, crashed>>
    /\ lastCall' = NoCall

\* line 371, after the write of the catch: the log reads xboxUser->gamertag(), and
\* the fetch ends
FetchCaught(n) ==
    /\ ~crashed
    /\ fetch[n].pc = "caught"
    /\ \/ /\ fetch' = [fetch EXCEPT ![n] = NoFetch]
          /\ UNCHANGED crashed
       \/ /\ ~xboxUser
          /\ crashed' = TRUE
          /\ UNCHANGED fetch
    /\ UNCHANGED <<sessionVars, achVars, storageVars, procVars, updates, progressCall,
                   unlockCall, tokenRequests, sdk>>
    /\ lastCall' = NoCall

\* ---- XBLManager::isAchievementUnlocked --------------------------------------------

\* lines 219-225: the cached value of the achievement, defaultValue when it has none
Lookup(id, defaultValue) ==
    IF achievementStatus[id] = "absent" THEN defaultValue
    ELSE achievementStatus[id] = "unlocked"

\* the return statement the lookup ends at
LookupLine(id) == IF achievementStatus[id] = "absent" THEN 225 ELSE 223

\* lines 200-205: the first test of the status; Uninitialized returns false
IsAchievementUnlocked(id, defaultValue) ==
    /\ ~crashed
    /\ unlockCall.pc = "idle"
    /\ IF achievementsStatus = "Uninitialized"
       THEN /\ lastCall' = [op |-> "isAchievementUnlocked", arg |-> id, ret |-> "false",
                            obj |-> 0, line |-> 205]
            /\ UNCHANGED unlockCall
       ELSE /\ unlockCall' = [pc |-> "test", id |-> id, defaultValue |-> defaultValue]
            /\ lastCall' = NoCall
    /\ Called
    /\ UNCHANGED <<sessionVars, achVars, storageVars, procVars, fetch, updates, progressCall,
                   tokenRequests, crashed>>

\* line 207: the second test of the status; Retrieving enters the spin of line 210
IsAchievementUnlockedTest ==
    /\ ~crashed
    /\ unlockCall.pc = "test"
    /\ unlockCall' = [unlockCall EXCEPT
                         !.pc = IF achievementsStatus = "Retrieving" THEN "spin" ELSE "lookup"]
    /\ UNCHANGED <<sessionVars, achVars, storageVars, procVars, fetch, updates, progressCall,
                   tokenRequests, sdk, crashed>>
    /\ lastCall' = NoCall

\* the spin of line 210 without its deadline: it ends only when the status has left
\* Retrieving
IsAchievementUnlockedNoDeadline ==
    /\ ~crashed
    /\ unlockCall.pc = "spin"
    /\ achievementsStatus # "Retrieving"
    /\ unlockCall' = [unlockCall EXCEPT !.pc = "retest"]
    /\ UNCHANGED <<sessionVars, achVars, storageVars, procVars, fetch, updates, progressCall,
                   tokenRequests, sdk, crashed>>
    /\ lastCall' = NoCall

\* line 210: the spin ends, because the status read is not Retrieving or because
\* GetTickCount64() has reached the deadline of 5000 ms
IsAchievementUnlockedResume ==
    /\ ~crashed
    /\ unlockCall.pc = "spin"
    /\ unlockCall' = [unlockCall EXCEPT !.pc = "retest"]
    /\ UNCHANGED <<sessionVars, achVars, storageVars, procVars, fetch, updates, progressCall,
                   tokenRequests, sdk, crashed>>
    /\ lastCall' = NoCall

\* lines 212-216: the test after the spin; a status still Retrieving returns false
IsAchievementUnlockedRetest ==
    /\ ~crashed
    /\ unlockCall.pc = "retest"
    /\ IF achievementsStatus = "Retrieving"
       THEN /\ unlockCall' = NoUnlock
            /\ lastCall' = [op |-> "isAchievementUnlocked", arg |-> unlockCall.id,
                            ret |-> "false", obj |-> 0, line |-> 215]
       ELSE /\ unlockCall' = [unlockCall EXCEPT !.pc = "lookup"]
            /\ lastCall' = NoCall
    /\ UNCHANGED <<sessionVars, achVars, storageVars, procVars, fetch, updates, progressCall,
                   tokenRequests, sdk, crashed>>

\* lines 219-225: the lookup of the cache
IsAchievementUnlockedLookup ==
    /\ ~crashed
    /\ unlockCall.pc = "lookup"
    /\ unlockCall' = NoUnlock
    /\ lastCall' = [op |-> "isAchievementUnlocked", arg |-> unlockCall.id,
                    ret |-> BoolStr(Lookup(unlockCall.id, unlockCall.defaultValue)),
                    obj |-> 0, line |-> LookupLine(unlockCall.id)]
    /\ UNCHANGED <<sessionVars, achVars, storageVars, procVars, fetch, updates, progressCall,
                   tokenRequests, sdk, crashed>>

\* IEEE 754 round-to-nearest, ties to even, of the quotient n / d to an integer
RoundHalfEven(n, d) ==
    LET q == n \div d
        r == n % d
    IN  IF 2 * r < d THEN q
        ELSE IF 2 * r > d THEN q + 1
        ELSE IF q % 2 = 0 THEN q ELSE q + 1

\* the exponent that gives the float quotient c / m its 24-bit significand: the
\* least e >= from with c * 2^e / m >= 2^23
RECURSIVE FloatScale(_, _, _)
FloatScale(c, m, from) ==
    IF c * 2^from >= 2^23 * m THEN from ELSE FloatScale(c, m, from + 1)

\* the bits a product n drops to fit a 24-bit significand: the least g >= from with
\* n / 2^g < 2^24
RECURSIVE FloatShift(_, _)
FloatShift(n, from) ==
    IF n \div 2^from < 2^24 THEN from ELSE FloatShift(n, from + 1)

\* line 185: (int)floor(((float)currentProgress / (float)maximumValue) * 100.f), in
\* single precision: the quotient is rounded to a float (significand q, exponent
\* -e), its product by 100.f is rounded to a float (significand p, exponent g - e),
\* and floor takes the integer part.  For 0 < maximumValue <= 127 and
\* 0 <= currentProgress every intermediate value fits 32 bits.
Progress(currentProgress, maximumValue) ==
    IF currentProgress = 0 THEN 0
    ELSE LET e == FloatScale(currentProgress, maximumValue, 0)
             q == RoundHalfEven(currentProgress * 2^e, maximumValue)
             g == FloatShift(q * 100, 0)
             p == RoundHalfEven(q * 100, 2^g)
         IN  p \div 2^(e - g)

\* lines 180-185 on the caller's thread: the test of xboxUser and xboxLiveContext
\* and the computation of the progress; without a user or a context the call
\* returns at once
SetAchievementProgress(id, currentProgress, maximumValue) ==
    /\ ~crashed
    /\ ~progressCall.active
    /\ IF xboxUser /\ xboxLiveContext
       THEN /\ Cardinality(updates) < MaxUpdates
            /\ progressCall' = [active |-> TRUE, id |-> id,
                                currentProgress |-> currentProgress,
                                maximumValue |-> maximumValue,
                                progress |-> Progress(currentProgress, maximumValue)]
            /\ lastCall' = NoCall
       ELSE /\ lastCall' = [op |-> "setAchievementProgress", arg |-> id,
                            ret |-> "skipped", obj |-> 0, line |-> 198]
            /\ UNCHANGED progressCall
    /\ Called
    /\ UNCHANGED <<sessionVars, achVars, storageVars, procVars, fetch, updates, unlockCall,
                   tokenRequests, crashed>>

\* line 186: the call goes on to xboxLiveContext->achievement_service()
\* .update_achievement(xboxUser->xbox_user_id(), id, progress), an invalid access
\* when the sign-out handler has reset a pointer since the test of line 182
UpdateAchievement ==
    /\ ~crashed
    /\ progressCall.active
    /\ \/ /\ updates' = updates \cup
                 {[id |-> progressCall.id, progress |-> progressCall.progress]}
          /\ progressCall' = NoProgress
          /\ lastCall' = [op |-> "setAchievementProgress", arg |-> progressCall.id,
                          ret |-> "requested", obj |-> 0, line |-> 186]
          /\ UNCHANGED crashed
       \/ /\ ~xboxUser \/ ~xboxLiveContext
          /\ crashed' = TRUE
          /\ UNCHANGED <<updates, progressCall>>
          /\ lastCall' = NoCall
    /\ UNCHANGED <<sessionVars, achVars, storageVars, procVars, fetch, unlockCall,
                   tokenRequests, sdk>>

\* lines 186-196: the continuation of update_achievement; an error is logged, and a
\* progress of exactly 100 marks the achievement unlocked in the cache
UpdateAchievementDone(u, err) ==
    /\ ~crashed
    /\ u \in updates
    /\ updates' = updates \ {u}
    /\ achievementStatus' =
          IF ~err /\ u.progress = 100
          THEN [achievementStatus EXCEPT ![u.id] = "unlocked"]
          ELSE achievementStatus
    /\ UNCHANGED <<sessionVars, achievementsStatus, storageVars, procVars, fetch,
                   progressCall, unlockCall, tokenRequests, sdk, crashed>>
    /\ lastCall' = NoCall

\* ---- XBLManager::getAuthToken -----------------------------------------------------

\* the calls of getAuthToken that are on their way to the request
TokenThreads == {t \in BagToSet(threads) : t.op = "getAuthToken"}

\* getAuthToken() without the test of line 143: every call goes on to the request
GetAuthTokenUngated ==
    /\ ~crashed
    /\ BagCardinality(threads) < MaxThreads
    /\ tokenRequests + BagCardinality([t \in TokenThreads |-> threads[t]]) < MaxTokenRequests
    /\ threads' = Entered([NewThread("getAuthToken", "", 0, "request")
                                      EXCEPT !.connected = status = "Connected"])
    /\ lastCall' = NoCall
    /\ Called
    /\ UNCHANGED <<sessionVars, achVars, saveStorage, tasks, procVars, achApiVars,
                   tokenRequests, crashed>>

\* lines 142-144 and 175-176: the test of the status; Connected, the call goes on
\* to the request; otherwise the promise is resolved to Error at once
GetAuthToken ==
    /\ ~crashed
    /\ IF status = "Connected"
       THEN /\ BagCardinality(threads) < MaxThreads
            /\ tokenRequests + BagCardinality([t \in TokenThreads |-> threads[t]]) < MaxTokenRequests
            /\ threads' = Entered([NewThread("getAuthToken", "", 0, "request")
                                              EXCEPT !.connected = TRUE])
            /\ lastCall' = NoCall
       ELSE /\ lastCall' = [op |-> "getAuthToken", arg |-> "", ret |-> "Error",
                            obj |-> 0, line |-> 176]
            /\ UNCHANGED threads
    /\ Called
    /\ UNCHANGED <<sessionVars, achVars, saveStorage, tasks, procVars, achApiVars,
                   tokenRequests, crashed>>

\* lines 146-173: xboxLiveContext->user()->get_token_and_signature(...), an invalid
\* access when the sign-out handler has reset the context; the call returns the
\* future
GetAuthTokenRequest(t) ==
    /\ ~crashed
    /\ t.op = "getAuthToken"
    /\ t.pc = "request"
    /\ \/ /\ tokenRequests' = tokenRequests + 1
          /\ threads' = Returned(t)
          /\ lastCall' = [op |-> "getAuthToken", arg |-> "", ret |-> "pending", obj |-> 0,
                          line |-> 173]
          /\ UNCHANGED crashed
       \/ /\ ~xboxLiveContext
          /\ crashed' = TRUE
          /\ UNCHANGED <<tokenRequests, threads>>
          /\ lastCall' = NoCall
    /\ UNCHANGED <<sessionVars, achVars, saveStorage, tasks, procVars, achApiVars, sdk>>

\* lines 147-171: the continuation resolves the promise, to Error or to a token
GetAuthTokenDone(ok) ==
    /\ ~crashed
    /\ tokenRequests > 0
    /\ tokenRequests' = tokenRequests - 1
    /\ lastCall' = NoCall
    /\ UNCHANGED <<sessionVars, achVars, storageVars, procVars, achApiVars, sdk, crashed>>

\* ---- the system --------------------------------------------------------------------

\* the user: every signIn() call with its protocol up to getConnectedStorage(),
\* and the sign-out
UserNext ==
    \/ SignIn
    \/ SignInAgain
    \/ \E n \in 1..MaxSignIns : SignInUser(n)
    \/ \E n \in 1..MaxSignIns : SignInSilently(n)
    \/ \E n \in 1..MaxSignIns, r \in SignInResults : SilentSignInDone(n, r)
    \/ \E n \in 1..MaxSignIns, r \in SignInResults : LoudSignInDone(n, r)
    \/ \E n \in 1..MaxSignIns : AddSignOutCompletedHandler(n)
    \/ \E n \in 1..MaxSignIns : RetrieveUserAchievementsState(n)
    \/ \E n \in 1..MaxSignIns : RetrieveUserAchievementsClear(n)
    \/ \E n \in 1..MaxSignIns : RetrieveUserAchievementsRequest(n)
    \/ SignOutHandler

\* getConnectedStorage() of the sign-in protocols
ConnectNext ==
    \/ \E n \in 1..MaxSignIns : SignInStorageRequest(n)
    \/ \E n \in 1..MaxSignIns, ok \in BOOLEAN : SignInStorageResult(n, ok)
    \/ \E n \in 1..MaxSignIns : SignInStorageConnected(n)

\* the session
SessionNext == UserNext \/ ConnectNext

\* recreateCloudSaveContainer and its task, up to the recreate() of a container
ReacquireNext ==
    \/ RecreateCloudSaveContainer
    \/ RecreateDropProvider
    \/ RecreateDisconnect
    \/ RecreateStorageRequest
    \/ \E ok \in BOOLEAN : RecreateStorageResult(ok)
    \/ RecreateStorageConnected
    \/ RecreateNext

\* the registry and the container handles
RegistryNext ==
    \/ \E k \in Keys : GetSaveContainer(k)
    \/ \E t \in BagToSet(threads) : GetSaveContainerStore(t)
    \/ \E k \in Keys, n \in 1..MaxThreads : IsReady(k, n)
    \/ \E t \in BagToSet(threads) : IsReadyReturn(t)
    \/ \E t \in BagToSet(threads) : UpdateContainerStatus(t)
    \/ \E t \in BagToSet(threads) : UpdateContainerTest(t)
    \/ \E t \in BagToSet(threads) : UpdateContainerCreate(t)
    \/ \E t \in BagToSet(threads) : UpdateContainerAssign(t)
    \/ \E t \in BagToSet(threads) : UpdateContainerReset(t)
    \/ RecreateReset
    \/ RecreateCreate
    \/ RecreateAssign

\* the storage operations and their tasks
StorageNext ==
    \/ \E op \in StorageOps, k \in Keys, n \in 1..MaxThreads : StorageCall(op, k, n)
    \/ \E t \in BagToSet(threads) : StorageCallReady(t)
    \/ \E t \in BagToSet(threads) : SetDataSaving(t)
    \/ \E task \in BagToSet(tasks) : GetDataCheck(task)
    \/ \E task \in BagToSet(tasks) : GetDataSpin(task)
    \/ \E task \in BagToSet(tasks) : GetDataDeadline(task)
    \/ \E task \in BagToSet(tasks) : GetAsync(task)
    \/ \E task \in BagToSet(tasks) : PlainTask(task)
    \/ \E task \in BagToSet(tasks) : SetDataSubmit(task)
    \/ \E task \in BagToSet(tasks), ok \in BOOLEAN : SetDataDone(task, ok)

\* the achievement cache: its fetch, its reset and its reader
CacheNext ==
    \/ DeInit
    \/ \E t \in BagToSet(threads) : DeInitClear(t)
    \/ \E n \in 1..MaxSignIns, items \in PageItems, hasNext \in BOOLEAN :
           FetchPage(n, items, hasNext)
    \/ \E n \in 1..MaxSignIns : FetchReady(n)
    \/ \E n \in 1..MaxSignIns, thrown \in BOOLEAN : FetchFailed(n, thrown)
    \/ \E n \in 1..MaxSignIns : FetchError(n)
    \/ \E n \in 1..MaxSignIns : FetchCaught(n)
    \/ \E a \in AchIds, d \in BOOLEAN : IsAchievementUnlocked(a, d)
    \/ IsAchievementUnlockedTest
    \/ IsAchievementUnlockedResume
    \/ IsAchievementUnlockedRetest
    \/ IsAchievementUnlockedLookup

\* setAchievementProgress and its continuation
ProgressNext ==
    \/ \E a \in AchIds, c \in CurrentProgresses, m \in MaximumValues :
           SetAchievementProgress(a, c, m)
    \/ UpdateAchievement
    \/ \E a \in AchIds, c \in CurrentProgresses, m \in MaximumValues, err \in BOOLEAN :
           UpdateAchievementDone([id |-> a, progress |-> Progress(c, m)], err)

\* the achievement API
AchievementNext == CacheNext \/ ProgressNext

\* the authorisation token
TokenNext ==
    \/ GetAuthToken
    \/ \E t \in BagToSet(threads) : GetAuthTokenRequest(t)
    \/ \E ok \in BOOLEAN : GetAuthTokenDone(ok)

\* the player's name
PlayerNext ==
    \/ GetPlayerName
    \/ \E t \in BagToSet(threads) : GetPlayerNameReturn(t)

Next ==
    \/ SessionNext
    \/ ReacquireNext
    \/ RegistryNext
    \/ StorageNext
    \/ AchievementNext
    \/ TokenNext
    \/ PlayerNext

Spec == Init /\ [][Next]_vars

\* the session and the re-acquisition, with the registry and the storage operations
NextStorage == SessionNext \/ ReacquireNext \/ RegistryNext \/ StorageNext

SpecStorage == Init /\ [][NextStorage]_vars

\* the session and the re-acquisition, with the registry
NextRegistry == SessionNext \/ ReacquireNext \/ RegistryNext

SpecRegistry == Init /\ [][NextRegistry]_vars

\* the session, with the achievement API
NextAchievements == UserNext \/ AchievementNext

SpecAchievements == Init /\ [][NextAchievements]_vars

\* The thread inside isAchievementUnlocked keeps running and GetTickCount64()
\* advances, so the spin of line 210 is left: weak fairness of the call's steps.
SpecAchievementsFair ==
    /\ SpecAchievements
    /\ WF_vars(IsAchievementUnlockedTest)
    /\ WF_vars(IsAchievementUnlockedResume)
    /\ WF_vars(IsAchievementUnlockedRetest)
    /\ WF_vars(IsAchievementUnlockedLookup)

\* the session and the re-acquisition, with the authorisation token and the
\* player's name
NextToken == SessionNext \/ ReacquireNext \/ TokenNext \/ PlayerNext

SpecToken == Init /\ [][NextToken]_vars

\* ---- the properties ------------------------------------------------------------------

\* C1 as stated: a getData, enumerate, setData or removeData call that finds status
\* not Connected throws, and leaves the background tasks (and so the requests to
\* the container, which only tasks issue) as they were
C1_StorageGated ==
    [][\A t \in BagToSet(threads) :
          (~t.connected /\ StorageCallReady(t))
              => (lastCall'.ret = "threw" /\ tasks' = tasks)]_vars

\* C2: getAuthToken called while status is not Connected returns the future
\* resolved to Error and makes no request; a request is made only by a call that
\* found status Connected
C2_TokenGated ==
    [][/\ \A t \in BagToSet(threads') : t.op = "getAuthToken" => t.connected
       /\ (sdk'.calls > sdk.calls /\ status # "Connected" /\ lastCall'.op = "getAuthToken")
             => (lastCall'.ret = "Error" /\ tokenRequests' = tokenRequests)
       /\ (tokenRequests' > tokenRequests)
             => \E t \in BagToSet(threads) :
                    /\ t.op = "getAuthToken"
                    /\ t.connected
                    /\ threads' = Returned(t)]_vars

\* getAuthToken returned Error after the connection was lost, while the request of
\* a call made when it was up is still in flight
C2_Witness ==
    /\ lastCall.op = "getAuthToken"
    /\ lastCall.ret = "Error"
    /\ status = "Disconnected"
    /\ tokenRequests = 1

\* the step in which the getData task issues GetAsync (line 419) and returns
GetAsyncIssued(task) ==
    /\ task.op = "getData"
    /\ tasks' = Without(task)

\* a write of setData on the object of the task has been submitted and has not
\* completed
WriteInFlight(task) ==
    \E j \in BagToSet(tasks) :
        /\ j.op = "setData"
        /\ j.key = task.key
        /\ j.obj = task.obj
        /\ j.pc = "inflight"

\* C3 as stated: GetAsync is never issued while a write of setData on the
\* container has not completed
C3_ReadNeverDuringWrite ==
    [][\A task \in BagToSet(tasks) : GetAsyncIssued(task) => ~WriteInFlight(task)]_vars

\* C4 as stated: isAchievementUnlocked returns from the lookup of the cache (lines
\* 223, 225) only when achievementsStatus is Ready, and returns false when it is
\* Uninitialized
C4_CacheReadOnlyWhenReady ==
    lastCall.op = "isAchievementUnlocked" =>
        /\ lastCall.line \in {223, 225} => achievementsStatus = "Ready"
        /\ achievementsStatus = "Uninitialized" => lastCall.ret = "false"

\* C5 as stated: at the step that sets Ready the cache holds an entry for every
\* achievement of every page of the fetch
C5_ReadyHoldsEveryPage ==
    [][\A n \in 1..MaxSignIns :
          (fetch[n].pc = "last" /\ fetch'[n].pc = "idle" /\ achievementsStatus' = "Ready")
              => \A a \in fetch[n].seen : achievementStatus'[a] # "absent"]_vars

\* C6 as stated: when the sign-out handler has run its last statement the session
\* is gone
C6_SignOutDestroysSession ==
    [][(outPc = 5 /\ outPc' = 0) =>
          /\ ~xboxUser'
          /\ ~xboxLiveContext'
          /\ gameSaveProvider' = NoHandle
          /\ status' = "Disconnected"
          /\ achievementsStatus' = "Uninitialized"
          /\ achievementStatus' = EmptyCache]_vars

\* C7 as stated: a container's recreate() (between its lines 519 and 520) runs only
\* while the manager holds a provider
C7_RecreateHoldsProvider == recPc = "create" => gameSaveProvider # NoHandle

\* C8 as stated: isReady() returns true exactly when it found status Connected; not
\* Connected, the call leaves the object without handle; Connected, it leaves it
\* with one
C8_ReadyFollowsStatus ==
    [][\A t \in BagToSet(threads) :
          IsReadyReturn(t) =>
              /\ (lastCall'.ret = "true") <=> t.connected
              /\ (Container(t) # NoHandle) <=> t.connected]_vars

\* C9: of getSaveContainer calls made one after another (none inside the function
\* together with another call of the same name), the call that finds no entry
\* adds exactly one, which is the first object of the name, and every call that
\* finds the entry returns the object the registry holds and changes nothing; no
\* step of the sign-out, of recreateCloudSaveContainer or of any other operation
\* removes an entry or puts another object in its place
C9_OneObjectPerName ==
    [][/\ \A k \in Keys :
             \/ Len(saveStorage'[k]) = Len(saveStorage[k])
             \/ \E t \in BagToSet(threads) :
                    /\ GetSaveContainerStore(t)
                    /\ t.key = k
                    /\ Len(saveStorage'[k]) = Len(saveStorage[k]) + 1
                    /\ t.alone => ~Present(k)
       /\ lastCall'.op = "getSaveContainer" =>
             LET k == lastCall'.arg IN
             /\ lastCall'.obj = Len(saveStorage'[k])
             /\ lastCall'.ret = "found" => (Present(k) /\ saveStorage' = saveStorage)
             /\ \A o \in Keys \ {k} : saveStorage'[o] = saveStorage[o]]_vars

\* after a sign-in, a getSaveContainer that built the object of the name and a
\* sign-out, getSaveContainer finds the entry and returns that first object, which
\* still has the handle it was built with
C9_Witness ==
    /\ lastCall.op = "getSaveContainer"
    /\ lastCall.ret = "found"
    /\ lastCall.obj = 1
    /\ Len(saveStorage[lastCall.arg]) = 1
    /\ saveStorage[lastCall.arg][1].gameSaveContainer # NoHandle
    /\ status = "Disconnected"
    /\ ~sdk.signedIn /\ sdk.handlers > 0 /\ sdk.pending = 0 /\ outPc = 0

\* C10 as stated: status == Connected implies that the manager holds a provider
C10_ConnectedHoldsProvider == status = "Connected" => gameSaveProvider # NoHandle

\* no sign-in protocol, sign-out handler, recreate task or call is under way
Quiescent ==
    /\ \A n \in 1..MaxSignIns : signPc[n] = "idle"
    /\ outPc = 0 /\ sdk.pending = 0
    /\ recPc = "idle"
    /\ threads = EmptyBag

\* C11 as stated, for the states where nothing is under way: a handle held while
\* the manager is Connected and holds a provider was created from that provider
C11_HandleFromCurrentProvider ==
    (Quiescent /\ status = "Connected" /\ gameSaveProvider # NoHandle) =>
        \A k \in Keys :
            (Present(k) /\ Registered(k).gameSaveContainer \notin {NoHandle, BadHandle})
                => Registered(k).gameSaveContainer = gameSaveProvider

\* C12 as stated: once signIn() has been called and no sign-in protocol has an SDK
\* call outstanding, status is not Connecting
C12_ProtocolLeavesConnecting ==
    (sdk.signIns > 0 /\ \A n \in 1..MaxSignIns : signPc[n] = "idle") => status # "Connecting"

\* C13 as stated: a status that is Uninitialized stays Uninitialized until
\* retrieveUserAchievementsState sets Retrieving, so Ready is never set over a reset
C13_ResetSticks ==
    [][achievementsStatus = "Uninitialized"
          => achievementsStatus' \in {"Uninitialized", "Retrieving"}]_vars

\* the writes started by setData on the n-th object of key k that have not completed
WritesInFlight(k, n) ==
    {task \in BagToSet(tasks) : task.op = "setData" /\ task.key = k /\ task.obj = n}

\* C14 as stated: isSaving is true exactly while a write started by setData on the
\* container has not completed
C14_FlagWhileWriting ==
    \A k \in Keys : \A n \in 1..Len(saveStorage[k]) :
        saveStorage[k][n].isSaving <=> WritesInFlight(k, n) # {}

\* C15: a call whose test at line 207 reads Retrieving enters the wait of line 210,
\* and no call enters it otherwise; the wait ends (the status has left Retrieving
\* or the deadline has passed) at the test of line 212; when that test still reads
\* Retrieving the call returns false at line 215, whatever defaultValue and the
\* cache are; no step of the call changes achievementsStatus or the cache; and a
\* call that is inside the function always returns, unless the process has died
C15_SpinTerminates ==
    /\ [][/\ (IsAchievementUnlockedTest /\ achievementsStatus = "Retrieving")
               => unlockCall'.pc = "spin"
          /\ (unlockCall.pc # "spin" /\ unlockCall'.pc = "spin")
               => (IsAchievementUnlockedTest /\ achievementsStatus = "Retrieving")
          /\ (unlockCall.pc = "spin" /\ unlockCall'.pc # "spin")
               => unlockCall'.pc = "retest"
          /\ (IsAchievementUnlockedRetest /\ achievementsStatus = "Retrieving")
               => /\ lastCall'.op = "isAchievementUnlocked"
                  /\ lastCall'.ret = "false"
                  /\ lastCall'.line = 215
                  /\ unlockCall' = NoUnlock
          /\ (unlockCall' # unlockCall \/ lastCall'.op = "isAchievementUnlocked")
               => UNCHANGED achVars]_vars
    /\ ((unlockCall.pc # "idle") ~> (unlockCall.pc = "idle" \/ crashed))

\* the call waited, the deadline passed with the fetch still waiting for its next
\* page and the status still Retrieving, and the call returned false at line 215
C15_Witness ==
    /\ lastCall.op = "isAchievementUnlocked"
    /\ lastCall.line = 215
    /\ lastCall.ret = "false"
    /\ achievementsStatus = "Retrieving"
    /\ \E n \in 1..MaxSignIns : fetch[n].pc = "wait" /\ fetch[n].pages > 0

\* C16 as stated: with a user and a context, setAchievementProgress sends
\* floor(currentProgress * 100 / maximumValue) as the progress
C16_SendsFloorOfPercentage ==
    [][(progressCall.active /\ updates' # updates) =>
          [id |-> progressCall.id,
           progress |-> (progressCall.currentProgress * 100) \div progressCall.maximumValue]
              \in updates']_vars

\* C17 as stated: a background storage task never uses an empty container handle;
\* when a task issues its request (GetAsync, CreateBlobInfoQuery or
\* SubmitUpdatesAsync) the handle of its object is present
C17_HandlePresentAtRequest ==
    [][\A task \in BagToSet(tasks) :
          (GetAsync(task) \/ PlainTask(task) \/ SetDataSubmit(task))
              => TaskObject(task).gameSaveContainer # NoHandle]_vars

\* C18 as stated: no two distinct save objects of the registry target the same
\* container name, the key "" (whose container name defaults to "save") included
C18_DistinctContainerNames ==
    \A k1, k2 \in Keys :
        (k1 # k2 /\ Present(k1) /\ Present(k2))
            => Registered(k1).containerName # Registered(k2).containerName

====
